---- MODULE Spec2Model ----
(***************************************************************************)
(* Model of the Python web terminal: the literal command interpreter       *)
(* (terminal.py), the natural-language front end (ai_terminal.py) and the  *)
(* web endpoint (web_terminal.py).  Text is modelled by TLA+ strings, one  *)
(* character per position, so tokenizing, quoting and the recognizers of   *)
(* the pattern table are computed character by character as the code does.*)
(***************************************************************************)
EXTENDS Integers, Sequences, FiniteSets, TLC

(***************************************************************************)
(* Text primitives (str methods used by the code)                          *)
(***************************************************************************)
Ch(s, i) == SubSeq(s, i, i)

UpperLetters == "ABCDEFGHIJKLMNOPQRSTUVWXYZ"
LowerLetters == "abcdefghijklmnopqrstuvwxyz"
Digits == "0123456789"

InStr(c, s) == \E i \in 1..Len(s) : Ch(s, i) = c

\* str.isspace for one character
IsSpace(c) == c \in {" ", "\t", "\n", "\r"}

\* one character of str.lower()
LowerMap ==
  ("A" :> "a") @@ ("B" :> "b") @@ ("C" :> "c") @@ ("D" :> "d") @@ ("E" :> "e") @@ ("F" :>
  "f") @@ ("G" :> "g") @@ ("H" :> "h") @@ ("I" :> "i") @@ ("J" :> "j") @@ ("K" :> "k") @@
  ("L" :> "l") @@ ("M" :> "m") @@ ("N" :> "n") @@ ("O" :> "o") @@ ("P" :> "p") @@ ("Q" :>
  "q") @@ ("R" :> "r") @@ ("S" :> "s") @@ ("T" :> "t") @@ ("U" :> "u") @@ ("V" :> "v") @@
  ("W" :> "w") @@ ("X" :> "x") @@ ("Y" :> "y") @@ ("Z" :> "z")

LowerCh(c) == IF c \in DOMAIN LowerMap THEN LowerMap[c] ELSE c

RECURSIVE Lower(_)
Lower(s) == IF s = "" THEN "" ELSE LowerCh(Ch(s, 1)) \o Lower(Tail(s))

\* str.strip()
RECURSIVE LStrip(_)
LStrip(s) == IF s # "" /\ IsSpace(Ch(s, 1)) THEN LStrip(Tail(s)) ELSE s

RECURSIVE RStrip(_)
RStrip(s) ==
  IF s # "" /\ IsSpace(Ch(s, Len(s))) THEN RStrip(SubSeq(s, 1, Len(s) - 1)) ELSE s

Strip(s) == RStrip(LStrip(s))

\* str.split(): the maximal runs of non-whitespace characters, in order
RECURSIVE SplitFrom(_, _, _)
SplitFrom(s, i, cur) ==
  IF i > Len(s)
  THEN IF cur = "" THEN <<>> ELSE <<cur>>
  ELSE IF IsSpace(Ch(s, i))
       THEN IF cur = "" THEN SplitFrom(s, i + 1, "")
                        ELSE <<cur>> \o SplitFrom(s, i + 1, "")
       ELSE SplitFrom(s, i + 1, cur \o Ch(s, i))

Split(s) == SplitFrom(s, 1, "")

\* sep.join(parts)
RECURSIVE Join(_, _)
Join(sep, parts) ==
  IF parts = <<>> THEN ""
  ELSE IF Len(parts) = 1 THEN parts[1]
       ELSE parts[1] \o sep \o Join(sep, Tail(parts))

StartsWith(s, p) == Len(s) >= Len(p) /\ SubSeq(s, 1, Len(p)) = p

\* str.replace of every occurrence of the single character c by r
RECURSIVE ReplaceCh(_, _, _)
ReplaceCh(s, c, r) ==
  IF s = "" THEN ""
  ELSE (IF Ch(s, 1) = c THEN r ELSE Ch(s, 1)) \o ReplaceCh(Tail(s), c, r)

\* Regular expressions of the pattern table.  A recognizer is a sequence of
\* items matched left to right with Python's backtracking priorities:
\*   Lit(s)       the literal s (IGNORECASE)
\*   Alt(<<..>>)  a non-capturing group of alternatives, tried in order
\*   Opt(<<..>>)  the same group followed by ?, greedy: present first
\*   Slot(1)      the capturing group of one or more of [\w\s./\\-]
\*   Slot(0)      the capturing group of zero or more of [\w\s./\\-]
\*   Rest         the capturing group of zero or more of any character
Lit(s) == [t |-> "alt", alts |-> <<s>>, optional |-> FALSE]
Alt(ss) == [t |-> "alt", alts |-> ss, optional |-> FALSE]
Opt(ss) == [t |-> "alt", alts |-> ss, optional |-> TRUE]
Slot(min) == [t |-> "slot", min |-> min]
Rest == [t |-> "rest"]

\* \w
IsWordCh(c) == InStr(c, LowerLetters) \/ InStr(c, UpperLetters) \/ InStr(c, Digits) \/ c = "_"

\* [\w\s./\\-]
IsSlotCh(c) == IsWordCh(c) \/ IsSpace(c) \/ c \in {".", "/", "\\", "-"}

\* the dot (no DOTALL)
IsDotCh(c) == c # "\n"

\* a literal of the recognizer at offset pos; ls is the text lowercased
\* (re.IGNORECASE: the literals of the table are all lowercase)
LitAt(ls, pos, lit) ==
  /\ pos + Len(lit) <= Len(ls)
  /\ SubSeq(ls, pos + 1, pos + Len(lit)) = lit

\* length of the longest run of class characters starting after pos
RECURSIVE RunLen(_, _, _)
RunLen(s, pos, slot) ==
  IF pos < Len(s) /\ (IF slot THEN IsSlotCh(Ch(s, pos + 1)) ELSE IsDotCh(Ch(s, pos + 1)))
  THEN 1 + RunLen(s, pos + 1, slot)
  ELSE 0

\* the ways one item can match at position st.pos (0-based offset), in
\* priority order; st = [pos, groups]
RECURSIVE AltWays(_, _, _, _)
AltWays(ls, st, alts, k) ==
  IF k > Len(alts) THEN <<>>
  ELSE (IF LitAt(ls, st.pos, alts[k])
        THEN <<[pos |-> st.pos + Len(alts[k]), groups |-> st.groups]>>
        ELSE <<>>) \o AltWays(ls, st, alts, k + 1)

\* a lazy group: the shortest run is tried first
RunWaysLazy(s, st, n, min) ==
  [i \in 1..(IF n < min THEN 0 ELSE n - min + 1) |->
     [pos |-> st.pos + min + i - 1,
      groups |-> Append(st.groups, SubSeq(s, st.pos + 1, st.pos + min + i - 1))]]

RECURSIVE RunWays(_, _, _, _)
RunWays(s, st, n, min) ==
  IF n < min THEN <<>>
  ELSE <<[pos |-> st.pos + n,
          groups |-> Append(st.groups, SubSeq(s, st.pos + 1, st.pos + n))]>>
       \o RunWays(s, st, n - 1, min)

ItemWays(s, ls, st, item) ==
  IF item.t = "alt"
  THEN AltWays(ls, st, item.alts, 1) \o (IF item.optional THEN <<st>> ELSE <<>>)
  ELSE IF item.t = "slot"
       THEN RunWays(s, st, RunLen(s, st.pos, TRUE), item.min)
       ELSE RunWays(s, st, RunLen(s, st.pos, FALSE), 0)

\* the first complete match of items[k..] from state st (backtracking,
\* depth first in priority order), or <<>> when there is none
RECURSIVE MatchFrom(_, _, _, _, _)
RECURSIVE FirstOf(_, _, _, _, _, _)
MatchFrom(s, ls, items, k, st) ==
  IF k > Len(items) THEN <<st>>
  ELSE FirstOf(s, ls, items, k, ItemWays(s, ls, st, items[k]), 1)

FirstOf(s, ls, items, k, ways, j) ==
  IF j > Len(ways) THEN <<>>
  ELSE LET Tried(r) == IF r # <<>> THEN r ELSE FirstOf(s, ls, items, k, ways, j + 1)
       IN Tried(MatchFrom(s, ls, items, k + 1, ways[j]))

\* re.search(pattern, s, re.IGNORECASE): leftmost start, first match there
RECURSIVE SearchFrom(_, _, _, _)
SearchFrom(s, ls, items, start) ==
  IF start > Len(s) THEN [ok |-> FALSE, groups |-> <<>>]
  ELSE LET Tried(r) ==
             IF r # <<>> THEN [ok |-> TRUE, groups |-> r[1].groups]
             ELSE SearchFrom(s, ls, items, start + 1)
       IN Tried(MatchFrom(s, ls, items, 1, [pos |-> start, groups |-> <<>>]))

Search(items, s) == SearchFrom(s, Lower(s), items, 0)

(***************************************************************************)
(* NLPCommand.command_patterns: the ordered table of (recognizer, handler) *)
(***************************************************************************)
PathKind == <<"file ", "directory ", "folder ">>

command_patterns == <<
  \* File operations
  [pattern |-> <<Lit("create "), Opt(<<"a ">>), Opt(<<"new ">>), Alt(<<"directory", "folder">>),
                 Opt(<<" called", " named">>), Lit(" "), Slot(1)>>,
   handler |-> "_create_directory"],
  [pattern |-> <<Lit("make "), Opt(<<"a ">>), Opt(<<"new ">>), Alt(<<"directory", "folder">>),
                 Opt(<<" called", " named">>), Lit(" "), Slot(1)>>,
   handler |-> "_create_directory"],
  [pattern |-> <<Lit("create "), Opt(<<"a ">>), Opt(<<"new ">>), Opt(<<"empty ">>), Lit("file"),
                 Opt(<<" called", " named">>), Lit(" "), Slot(1)>>,
   handler |-> "_create_file"],
  [pattern |-> <<Lit("touch "), Opt(<<"a ">>), Opt(<<"new ">>), Lit("file"),
                 Opt(<<" called", " named">>), Lit(" "), Slot(1)>>,
   handler |-> "_create_file"],
  [pattern |-> <<Alt(<<"show", "list">>), Lit(" "), Opt(<<"the ">>), Alt(<<"files", "contents">>),
                 Opt(<<" in", " of">>), Opt(<<" the">>), Opt(<<" ">>),
                 Opt(<<"directory", "folder">>), Opt(<<" ">>), Slot(0)>>,
   handler |-> "_list_directory"],
  [pattern |-> <<Lit("what "), Alt(<<"files", "directories">>), Lit(" are "),
                 Alt(<<"in", "inside">>), Opt(<<" ">>), Slot(0)>>,
   handler |-> "_list_directory"],
  [pattern |-> <<Lit("show "), Opt(<<"me ">>), Opt(<<"the ">>), Lit("content"), Opt(<<"s">>),
                 Lit(" of "), Opt(<<"file ">>), Slot(1)>>,
   handler |-> "_show_file_content"],
  [pattern |-> <<Alt(<<"read", "cat", "display", "print">>), Lit(" "), Opt(<<"file ">>), Slot(1)>>,
   handler |-> "_show_file_content"],
  [pattern |-> <<Alt(<<"delete", "remove">>), Lit(" "), Opt(PathKind), Slot(1)>>,
   handler |-> "_remove_item"],
  [pattern |-> <<Lit("move "), Opt(PathKind), Slot(1), Lit(" to "),
                 Opt(<<"directory ", "folder ">>), Slot(1)>>,
   handler |-> "_move_item"],
  [pattern |-> <<Lit("rename "), Opt(PathKind), Slot(1), Lit(" to "), Slot(1)>>,
   handler |-> "_rename_item"],
  [pattern |-> <<Lit("copy "), Opt(PathKind), Slot(1), Lit(" to "),
                 Opt(<<"directory ", "folder ">>), Slot(1)>>,
   handler |-> "_copy_item"],
  [pattern |-> <<Lit("change "), Opt(<<"to ">>), Alt(<<"directory", "folder", "dir">>),
                 Lit(" "), Slot(1)>>,
   handler |-> "_change_directory"],
  [pattern |-> <<Alt(<<"go", "navigate">>), Lit(" to "), Opt(<<"directory", "folder", "dir">>),
                 Opt(<<" ">>), Slot(1)>>,
   handler |-> "_change_directory"],
  [pattern |-> <<Lit("cd "), Opt(<<"to ">>), Slot(1)>>,
   handler |-> "_change_directory"],
  \* System commands
  [pattern |-> <<Alt(<<"show", "display", "list">>), Lit(" "), Opt(<<"running ">>),
                 Lit("processes")>>,
   handler |-> "_list_processes"],
  [pattern |-> <<Alt(<<"show", "display">>), Lit(" "), Opt(<<"system ">>), Opt(<<"resource ">>),
                 Lit("usage")>>,
   handler |-> "_show_resource_usage"],
  [pattern |-> <<Alt(<<"show", "display">>), Lit(" "), Alt(<<"disk", "storage">>), Lit(" "),
                 Alt(<<"usage", "space", "info">>)>>,
   handler |-> "_show_disk_usage"],
  [pattern |-> <<Alt(<<"what", "where">>), Lit(" is "), Opt(<<"my ">>), Lit("current "),
                 Alt(<<"directory", "folder", "location">>)>>,
   handler |-> "_show_current_directory"],
  [pattern |-> <<Alt(<<"show", "display">>), Lit(" "), Opt(<<"command ">>), Lit("history")>>,
   handler |-> "_show_history"],
  \* Help and exit
  [pattern |-> <<Alt(<<"show", "list", "display">>), Lit(" "), Opt(<<"available ">>),
                 Lit("commands")>>,
   handler |-> "_show_help"],
  [pattern |-> <<Alt(<<"how to", "help", "help with">>), Lit(" "), Rest>>,
   handler |-> "_show_command_help"],
  [pattern |-> <<Alt(<<"exit", "quit", "close">>), Lit(" "),
                 Alt(<<"terminal", "program", "application">>)>>,
   handler |-> "_exit_terminal"],
  [pattern |-> <<Lit("clear "), Opt(<<"the ">>), Alt(<<"screen", "terminal">>)>>,
   handler |-> "_clear_screen"]
>>

(***************************************************************************)
(* shlex.quote, used by the delegating adapters to compose their line      *)
(***************************************************************************)
\* characters outside [^\w@%+=:,./-] (re.ASCII)
IsSafeCh(c) == IsWordCh(c) \/ c \in {"@", "%", "+", "=", ":", ",", ".", "/", "-"}

Quote(s) ==
  IF s = "" THEN "''"
  ELSE IF \A i \in 1..Len(s) : IsSafeCh(Ch(s, i)) THEN s
       ELSE "'" \o ReplaceCh(s, "'", "'\"'\"'") \o "'"

(***************************************************************************)
(* The file system seen through os, os.path and shutil.  A path of the     *)
(* tree is the sequence of its component names; fs maps every existing     *)
(* path to its node; the root <<>> always exists and is a directory.       *)
(* perm = FALSE is a node the process has no permission on (mode 000).     *)
(***************************************************************************)
Node(kind, perm, content) == [kind |-> kind, perm |-> perm, content |-> content]

RootNode == Node("dir", TRUE, "")

\* the components of a path string, split on "/"
RECURSIVE PathParts(_, _, _)
PathParts(p, i, cur) ==
  IF i > Len(p) THEN <<cur>>
  ELSE IF Ch(p, i) = "/" THEN <<cur>> \o PathParts(p, i + 1, "")
       ELSE PathParts(p, i + 1, cur \o Ch(p, i))

\* lexical normalisation: "" and "." are dropped, ".." drops its parent
RECURSIVE Normalize(_, _)
Normalize(parts, acc) ==
  IF parts = <<>> THEN acc
  ELSE IF Head(parts) \in {"", "."} THEN Normalize(Tail(parts), acc)
       ELSE IF Head(parts) = ".."
            THEN Normalize(Tail(parts), IF acc = <<>> THEN acc ELSE SubSeq(acc, 1, Len(acc) - 1))
            ELSE Normalize(Tail(parts), Append(acc, Head(parts)))

\* the absolute path named by string p in working directory cwd
AbsPath(cwd, p) ==
  IF StartsWith(p, "/") THEN Normalize(PathParts(p, 1, ""), <<>>)
  ELSE Normalize(PathParts(p, 1, ""), cwd)

Parent(a) == SubSeq(a, 1, Len(a) - 1)

IsPrefix(a, b) == Len(a) <= Len(b) /\ SubSeq(b, 1, Len(a)) = a

NodeAt(fs, a) == IF a = <<>> THEN RootNode ELSE fs[a]

Exists(fs, a) == a = <<>> \/ a \in DOMAIN fs

\* the error of walking down to a (every proper prefix must be a directory
\* that can be searched), "" when the walk succeeds
RECURSIVE WalkErr(_, _, _)
WalkErr(fs, a, k) ==
  IF k >= Len(a) THEN ""
  ELSE LET pre == SubSeq(a, 1, k)
       IN IF ~Exists(fs, pre) THEN "FileNotFoundError"
          ELSE IF NodeAt(fs, pre).kind # "dir" THEN "NotADirectoryError"
          ELSE IF ~NodeAt(fs, pre).perm THEN "PermissionError"
          ELSE WalkErr(fs, a, k + 1)

\* os.stat: [err, kind, perm, content]; err = "" when the path exists
Stat(fs, cwd, p) ==
  LET Walked(a, w) ==
        IF p = "" THEN [err |-> "FileNotFoundError"] @@ RootNode
        ELSE IF w # "" THEN [err |-> w] @@ RootNode
        ELSE IF ~Exists(fs, a) THEN [err |-> "FileNotFoundError"] @@ RootNode
        ELSE [err |-> ""] @@ NodeAt(fs, a)
      At(a) == Walked(a, WalkErr(fs, a, 0))
  IN At(AbsPath(cwd, p))

\* os.path.isdir / os.path.exists: FALSE on every error
IsDir(fs, cwd, p) ==
  LET Is(st) == st.err = "" /\ st.kind = "dir" IN Is(Stat(fs, cwd, p))

PathExists(fs, cwd, p) == Stat(fs, cwd, p).err = ""

\* the error of creating or deleting an entry at p (the parent must be a
\* searchable and writable directory), "" when allowed
EntryErr(fs, cwd, p) ==
  LET Walked(a, w) ==
        IF p = "" THEN "FileNotFoundError"
        ELSE IF w # "" THEN w
        ELSE IF a # <<>> /\ ~NodeAt(fs, Parent(a)).perm THEN "PermissionError"
        ELSE ""
      At(a) == Walked(a, WalkErr(fs, a, 0))
  IN At(AbsPath(cwd, p))

\* os.path.basename
RECURSIVE BaseName(_)
BaseName(p) ==
  IF p = "" \/ Ch(p, Len(p)) = "/" THEN ""
  ELSE BaseName(SubSeq(p, 1, Len(p) - 1)) \o Ch(p, Len(p))

\* os.path.join(a, b)
PathJoin(a, b) ==
  IF StartsWith(b, "/") THEN b
  ELSE IF a = "" \/ Ch(a, Len(a)) = "/" THEN a \o b
       ELSE a \o "/" \o b

\* the paths of the subtree rooted at a (a included)
SubTree(fs, a) == {q \in DOMAIN fs : IsPrefix(a, q)}

Children(fs, a) == {q \in DOMAIN fs : Len(q) = Len(a) + 1 /\ IsPrefix(a, q)}

Restrict(f, S) == [q \in S |-> f[q]]

\* fs without the subtree at a
RemoveTree(fs, a) == Restrict(fs, DOMAIN fs \ SubTree(fs, a))

\* fs with the subtree at a installed at b as well
CopyTree(fs, a, b) ==
  LET Install(moved) ==
        [q \in DOMAIN fs \cup moved |->
           IF q \in moved THEN fs[a \o SubSeq(q, Len(b) + 1, Len(q))] ELSE fs[q]]
  IN Install({b \o SubSeq(q, Len(a) + 1, Len(q)) : q \in SubTree(fs, a)})

\* Results of the file system calls: [err, fs] with err the class of the
\* exception raised ("" when the call returns) and fs the tree afterwards.
Fail(err, fs) == [err |-> err, fs |-> fs]
Done(fs) == [err |-> "", fs |-> fs]

\* os.mkdir(p)
OsMkdir(fs, cwd, p) ==
  LET Make(a, st, e) ==
        IF e \in {"FileNotFoundError", "NotADirectoryError"} THEN Fail(e, fs)
        ELSE IF st.err = "" THEN Fail("FileExistsError", fs)
        ELSE IF e # "" THEN Fail(e, fs)
        ELSE Done((a :> Node("dir", TRUE, "")) @@ fs)
  IN Make(AbsPath(cwd, p), Stat(fs, cwd, p), EntryErr(fs, cwd, p))

\* os.remove(p)
OsRemove(fs, cwd, p) ==
  LET Remove(a, st, e) ==
        IF st.err # "" THEN Fail(st.err, fs)
        ELSE IF st.kind = "dir" THEN Fail("IsADirectoryError", fs)
        ELSE IF e # "" THEN Fail(e, fs)
        ELSE Done(RemoveTree(fs, a))
  IN Remove(AbsPath(cwd, p), Stat(fs, cwd, p), EntryErr(fs, cwd, p))

\* shutil.rmtree(p): a tree holding a directory without permission cannot
\* be scanned
ShutilRmtree(fs, cwd, p) ==
  LET Remove(a, st, e) ==
        IF st.err # "" THEN Fail(st.err, fs)
        ELSE IF st.kind # "dir" THEN Fail("NotADirectoryError", fs)
        ELSE IF \E q \in SubTree(fs, a) : fs[q].kind = "dir" /\ ~fs[q].perm
             THEN Fail("PermissionError", fs)
        ELSE IF e # "" THEN Fail(e, fs)
        ELSE IF a = <<>> THEN Fail("PermissionError", fs)
        ELSE Done(RemoveTree(fs, a))
  IN Remove(AbsPath(cwd, p), Stat(fs, cwd, p), EntryErr(fs, cwd, p))

\* with open(p, 'a'): os.utime(p, None)
OpenAppend(fs, cwd, p) ==
  LET Open(a, st, e) ==
        IF st.err = ""
        THEN IF st.kind = "dir" THEN Fail("IsADirectoryError", fs)
             ELSE IF ~st.perm THEN Fail("PermissionError", fs)
             ELSE Done(fs)
        ELSE IF e # "" THEN Fail(e, fs)
        ELSE Done((a :> Node("file", TRUE, "")) @@ fs)
  IN Open(AbsPath(cwd, p), Stat(fs, cwd, p), EntryErr(fs, cwd, p))

\* open(p, 'r').read(): [err, text]
OpenRead(fs, cwd, p) ==
  LET Read(st) ==
        IF st.err # "" THEN [err |-> st.err, text |-> ""]
        ELSE IF st.kind = "dir" THEN [err |-> "IsADirectoryError", text |-> ""]
        ELSE IF ~st.perm THEN [err |-> "PermissionError", text |-> ""]
        ELSE [err |-> "", text |-> st.content]
  IN Read(Stat(fs, cwd, p))

\* os.listdir(p): [err, names]
OsListdir(fs, cwd, p) ==
  LET List(a, st) ==
        IF st.err # "" THEN [err |-> st.err, names |-> {}]
        ELSE IF st.kind # "dir" THEN [err |-> "NotADirectoryError", names |-> {}]
        ELSE IF ~st.perm THEN [err |-> "PermissionError", names |-> {}]
        ELSE [err |-> "", names |-> {q[Len(q)] : q \in Children(fs, a)}]
  IN List(AbsPath(cwd, p), Stat(fs, cwd, p))

\* os.chdir(p): [err, cwd]
OsChdir(fs, cwd, p) ==
  LET Change(st) ==
        IF st.err # "" THEN [err |-> st.err, cwd |-> cwd]
        ELSE IF st.kind # "dir" THEN [err |-> "NotADirectoryError", cwd |-> cwd]
        ELSE IF ~st.perm THEN [err |-> "PermissionError", cwd |-> cwd]
        ELSE [err |-> "", cwd |-> AbsPath(cwd, p)]
  IN Change(Stat(fs, cwd, p))

\* os.rename(src, dst) on one file system
OsRename(fs, cwd, src, dst) ==
  LET Rename(a, b, sa, sb, ea, eb) ==
        IF sa.err # "" THEN Fail(sa.err, fs)
        ELSE IF eb \in {"FileNotFoundError", "NotADirectoryError"} THEN Fail(eb, fs)
        ELSE IF a = b THEN Done(fs)
        ELSE IF a = <<>> \/ IsPrefix(a, b) THEN Fail("OSError", fs)
        ELSE IF sb.err = "" /\ sa.kind # "dir" /\ sb.kind = "dir"
             THEN Fail("IsADirectoryError", fs)
        ELSE IF sb.err = "" /\ sa.kind = "dir" /\ sb.kind # "dir"
             THEN Fail("NotADirectoryError", fs)
        ELSE IF sb.err = "" /\ sb.kind = "dir" /\ Children(fs, b) # {}
             THEN Fail("OSError", fs)
        ELSE IF ea # "" THEN Fail(ea, fs)
        ELSE IF eb # "" THEN Fail(eb, fs)
        ELSE Done(RemoveTree(CopyTree(RemoveTree(fs, b), a, b), a))
  IN Rename(AbsPath(cwd, src), AbsPath(cwd, dst), Stat(fs, cwd, src), Stat(fs, cwd, dst),
            EntryErr(fs, cwd, src), EntryErr(fs, cwd, dst))

\* shutil.copyfile(src, dst)
ShutilCopyfile(fs, cwd, src, dst) ==
  LET Copy(a, b, sa, sb, eb) ==
        IF sa.err = "" /\ sb.err = "" /\ a = b THEN Fail("SameFileError", fs)
        ELSE IF sa.err # "" THEN Fail(sa.err, fs)
        ELSE IF sa.kind = "dir" THEN Fail("IsADirectoryError", fs)
        ELSE IF ~sa.perm THEN Fail("PermissionError", fs)
        ELSE IF sb.err = ""
             THEN IF sb.kind = "dir" THEN Fail("IsADirectoryError", fs)
                  ELSE IF ~sb.perm THEN Fail("PermissionError", fs)
                  ELSE Done((b :> Node("file", TRUE, sa.content)) @@ fs)
        ELSE IF eb # "" THEN Fail(eb, fs)
        ELSE Done((b :> Node("file", TRUE, sa.content)) @@ fs)
  IN Copy(AbsPath(cwd, src), AbsPath(cwd, dst), Stat(fs, cwd, src), Stat(fs, cwd, dst),
          EntryErr(fs, cwd, dst))

\* shutil.copy2(src, dst): a directory destination receives the file under
\* the source's base name
ShutilCopy2(fs, cwd, src, dst) ==
  ShutilCopyfile(fs, cwd, src, IF IsDir(fs, cwd, dst) THEN PathJoin(dst, BaseName(src)) ELSE dst)

\* shutil.copytree(src, dst): dst must not exist; missing parents are made
ShutilCopytree(fs, cwd, src, dst) ==
  LET Made(a, b, made) == Done(CopyTree(made, a, b))
      Missing(a, b, missing) == Made(a, b, [q \in missing |-> Node("dir", TRUE, "")] @@ fs)
      Copy(a, b, sa, sb, w) ==
        IF sa.err # "" THEN Fail(sa.err, fs)
        ELSE IF sa.kind # "dir" THEN Fail("NotADirectoryError", fs)
        ELSE IF ~sa.perm THEN Fail("PermissionError", fs)
        ELSE IF sb.err = "" THEN Fail("FileExistsError", fs)
        ELSE IF w \in {"NotADirectoryError", "PermissionError"} THEN Fail(w, fs)
        ELSE IF dst = "" THEN Fail("FileNotFoundError", fs)
        ELSE IF \E q \in SubTree(fs, a) : ~fs[q].perm THEN Fail("Error", fs)
        ELSE Missing(a, b, {SubSeq(b, 1, k) : k \in 1..(Len(b) - 1)} \ DOMAIN fs)
      At(a, b) == Copy(a, b, Stat(fs, cwd, src), Stat(fs, cwd, dst), WalkErr(fs, b, 0))
  IN At(AbsPath(cwd, src), AbsPath(cwd, dst))

\* os.makedirs(p, exist_ok=True)
RECURSIVE OsMakedirs(_, _, _, _)
OsMakedirs(fs, cwd, p, k) ==
  LET Make(a, pre) ==
        IF p = "" THEN Fail("FileNotFoundError", fs)
        ELSE IF k > Len(a) THEN Done(fs)
        ELSE IF Exists(fs, pre)
             THEN IF NodeAt(fs, pre).kind # "dir"
                  THEN Fail(IF k = Len(a) THEN "FileExistsError" ELSE "NotADirectoryError", fs)
                  ELSE IF ~NodeAt(fs, pre).perm /\ k < Len(a) THEN Fail("PermissionError", fs)
                  ELSE OsMakedirs(fs, cwd, p, k + 1)
             ELSE OsMakedirs((pre :> Node("dir", TRUE, "")) @@ fs, cwd, p, k + 1)
      At(a) == Make(a, SubSeq(a, 1, k))
  IN At(AbsPath(cwd, p))

\* shutil._basename: the base name with a trailing separator ignored
ShutilBasename(p) ==
  IF p # "" /\ Ch(p, Len(p)) = "/" THEN BaseName(SubSeq(p, 1, Len(p) - 1)) ELSE BaseName(p)

\* shutil.move(src, dst): [err, fs, real_dst]
ShutilMove(fs, cwd, src, dst) ==
  LET joined == /\ IsDir(fs, cwd, dst)
                /\ ~(PathExists(fs, cwd, src) /\ AbsPath(cwd, src) = AbsPath(cwd, dst))
      real_dst == IF joined THEN PathJoin(dst, ShutilBasename(src)) ELSE dst
      Result(r) == [err |-> r.err, fs |-> r.fs, real_dst |-> real_dst]
      \* except OSError: copy, then delete the source
      Renamed(rn) ==
        IF rn.err = "" THEN rn
        ELSE IF IsDir(fs, cwd, src)
        THEN IF IsPrefix(AbsPath(cwd, src), AbsPath(cwd, dst)) THEN Fail("Error", fs)
             ELSE LET Tree(ct) == IF ct.err # "" THEN ct ELSE ShutilRmtree(ct.fs, cwd, src)
                  IN Tree(ShutilCopytree(fs, cwd, src, real_dst))
        ELSE LET File(cp) == IF cp.err # "" THEN cp ELSE OsRemove(cp.fs, cwd, src)
             IN File(ShutilCopy2(fs, cwd, src, real_dst))
  IN IF joined /\ PathExists(fs, cwd, real_dst) THEN Result(Fail("Error", fs))
     ELSE Result(Renamed(OsRename(fs, cwd, src, real_dst)))

\* str(e) of the exception a file system call raised on path
ErrText(err, path) ==
  (CASE err = "FileNotFoundError" -> "[Errno 2] No such file or directory"
     [] err = "PermissionError" -> "[Errno 13] Permission denied"
     [] err = "FileExistsError" -> "[Errno 17] File exists"
     [] err = "NotADirectoryError" -> "[Errno 20] Not a directory"
     [] err = "IsADirectoryError" -> "[Errno 21] Is a directory"
     [] err = "OSError" -> "[Errno 39] Directory not empty"
     [] err = "SameFileError" -> "same file"
     [] OTHER -> "Destination path already exists")
  \o ": '" \o path \o "'"

(***************************************************************************)
(* Formatting helpers                                                      *)
(***************************************************************************)
DigitOf(n) == Ch(Digits, n + 1)

\* str(n) for n >= 0
RECURSIVE IntToStr(_)
IntToStr(n) == IF n < 10 THEN DigitOf(n) ELSE IntToStr(n \div 10) \o DigitOf(n % 10)

\* f"{n:4d}"
RECURSIVE PadLeft(_, _)
PadLeft(t, width) == IF Len(t) >= width THEN t ELSE PadLeft(" " \o t, width)

\* str.isdigit() on the ASCII digits
IsDigitStr(t) == t # "" /\ \A i \in 1..Len(t) : InStr(Ch(t, i), Digits)

\* int(t) for a string of digits
RECURSIVE StrToInt(_)
StrToInt(t) ==
  IF t = "" THEN 0
  ELSE 10 * StrToInt(SubSeq(t, 1, Len(t) - 1))
       + ((CHOOSE i \in 1..10 : Ch(Digits, i) = Ch(t, Len(t))) - 1)

\* the order of str comparison on the characters of the model's names
CharOrder == " '-./0123456789ABCDEFGHIJKLMNOPQRSTUVWXYZ\\_abcdefghijklmnopqrstuvwxyz"

CharCode(c) == IF InStr(c, CharOrder) THEN CHOOSE i \in 1..Len(CharOrder) : Ch(CharOrder, i) = c ELSE 0

RECURSIVE StrLess(_, _)
StrLess(a, b) ==
  IF b = "" THEN FALSE
  ELSE IF a = "" THEN TRUE
  ELSE IF Ch(a, 1) = Ch(b, 1) THEN StrLess(Tail(a), Tail(b))
  ELSE CharCode(Ch(a, 1)) < CharCode(Ch(b, 1))

\* sorted(names)
RECURSIVE Sorted(_)
Sorted(names) ==
  IF names = {} THEN <<>>
  ELSE LET least == CHOOSE x \in names : \A y \in names \ {x} : StrLess(x, y)
       IN <<least>> \o Sorted(names \ {least})

(***************************************************************************)
(* The interpreter state threaded through one command execution:           *)
(*   fs, cwd       the file system and os.getcwd()                         *)
(*   history       Terminal.command_history                                *)
(*   enabled       AutoCompleteCommand.enabled                             *)
(*   out           the value returned, [exc, text]: exc = "" and the text, *)
(*                 or the class of the exception that propagates           *)
(* and the trace of the execution in progress:                             *)
(*   invoked       the pattern handlers NLPCommand.execute called          *)
(*   dispatched    the lines the adapters handed to execute_command, each  *)
(*                 with the value it returned                              *)
(*   argv          the (name, args) of every registry command executed     *)
(*   direct        the file operation of a direct adapter                  *)
(*   resolved,     whether NLPCommand.execute ran, and the query it joined *)
(*   query                                                                 *)
(***************************************************************************)
Text(t) == [exc |-> "", text |-> t]
Exc(e) == [exc |-> e, text |-> ""]

Ret(m, t) == [m EXCEPT !.out = Text(t)]
Raise(m, e) == [m EXCEPT !.out = Exc(e)]

Has(args, a) == \E i \in 1..Len(args) : args[i] = a

\* [x for x in args if keep(x)]
RECURSIVE Without(_, _)
Without(args, drop) ==
  IF args = <<>> THEN <<>>
  ELSE (IF Head(args) \in drop THEN <<>> ELSE <<Head(args)>>) \o Without(Tail(args), drop)

RECURSIVE NonOptions(_)
NonOptions(args) ==
  IF args = <<>> THEN <<>>
  ELSE (IF StartsWith(Head(args), "-") THEN <<>> ELSE <<Head(args)>>) \o NonOptions(Tail(args))

\* PwdCommand.execute
PwdCommand(m, args) == Ret(m, "/" \o Join("/", m.cwd))

\* LsCommand.execute
RECURSIVE LsFormat(_, _, _, _)
LsFormat(m, target_dir, items, long_format) ==
  IF items = <<>> THEN <<>>
  ELSE LET Line(item, isdir) ==
             IF long_format
             THEN (IF isdir THEN "d" ELSE "-") \o " {size:8d} {mod_time} " \o item
                  \o (IF isdir THEN "/" ELSE "")
             ELSE IF isdir THEN item \o "/" ELSE item
           Item(item) == Line(item, IsDir(m.fs, m.cwd, PathJoin(target_dir, item)))
       IN <<Item(Head(items))>> \o LsFormat(m, target_dir, Tail(items), long_format)

LsCommand(m, args) ==
  LET Listed(long_format, target_dir, ld, sorted_items) ==
        IF ld.err = "FileNotFoundError"
        THEN Ret(m, "ls: cannot access '" \o target_dir \o "': No such file or directory")
        ELSE IF ld.err = "PermissionError"
        THEN Ret(m, "ls: cannot open directory '" \o target_dir \o "': Permission denied")
        ELSE IF ld.err # "" THEN Raise(m, ld.err)
        ELSE Ret(m, Join(IF long_format THEN "\n" ELSE "  ",
                         LsFormat(m, target_dir, sorted_items, long_format)))
      Sort(long_format, target_dir, ld, items, dirs) ==
        Listed(long_format, target_dir, ld, Sorted(dirs) \o Sorted(items \ dirs))
      Items(long_format, target_dir, ld, items) ==
        Sort(long_format, target_dir, ld, items,
             {n \in items : IsDir(m.fs, m.cwd, PathJoin(target_dir, n))})
      List(show_hidden, long_format, target_dir, ld) ==
        Items(long_format, target_dir, ld,
              {n \in ld.names : show_hidden \/ ~StartsWith(n, ".")})
      Target(show_hidden, long_format, target_dir) ==
        List(show_hidden, long_format, target_dir, OsListdir(m.fs, m.cwd, target_dir))
      Options(show_hidden, long_format, targets) ==
        Target(show_hidden, long_format, IF targets = <<>> THEN "." ELSE targets[1])
  IN Options(Has(args, "-a") \/ Has(args, "--all"), Has(args, "-l"), NonOptions(args))

\* the home directory of os.path.expanduser("~")
HomeDir == "/"

\* CdCommand.execute
CdCommand(m, args) ==
  LET Changed(target_dir, cd) ==
        IF cd.err = "" THEN Ret([m EXCEPT !.cwd = cd.cwd], "")
        ELSE IF cd.err = "FileNotFoundError"
        THEN Ret(m, "cd: " \o target_dir \o ": No such file or directory")
        ELSE IF cd.err = "NotADirectoryError"
        THEN Ret(m, "cd: " \o target_dir \o ": Not a directory")
        ELSE IF cd.err = "PermissionError"
        THEN Ret(m, "cd: " \o target_dir \o ": Permission denied")
        ELSE Raise(m, cd.err)
      Change(target_dir) == Changed(target_dir, OsChdir(m.fs, m.cwd, target_dir))
  IN Change(IF args = <<>> THEN HomeDir ELSE args[1])

\* MkdirCommand.execute: the loop over the paths; an exception other than
\* the three caught ones leaves the loop
RECURSIVE MkdirLoop(_, _, _, _)
MkdirLoop(m, paths, create_parents, errors) ==
  IF paths = <<>> THEN Ret(m, Join("\n", errors))
  ELSE LET path == Head(paths)
           msg(why) == "mkdir: cannot create directory '" \o path \o "': " \o why
           Made(r) ==
             IF r.err \in {"", "FileExistsError", "FileNotFoundError", "PermissionError"}
             THEN MkdirLoop([m EXCEPT !.fs = r.fs], Tail(paths), create_parents,
                            IF r.err = "" THEN errors
                            ELSE IF r.err = "FileExistsError"
                            THEN Append(errors, msg("File exists"))
                            ELSE IF r.err = "FileNotFoundError"
                            THEN Append(errors, msg("No such file or directory"))
                            ELSE Append(errors, msg("Permission denied")))
             ELSE Raise([m EXCEPT !.fs = r.fs], r.err)
       IN Made(IF create_parents THEN OsMakedirs(m.fs, m.cwd, path, 1)
               ELSE OsMkdir(m.fs, m.cwd, path))

MkdirCommand(m, args) ==
  LET create_parents == Has(args, "-p") \/ Has(args, "--parents")
  IN IF args = <<>> THEN Ret(m, "mkdir: missing operand")
     ELSE MkdirLoop(m, IF create_parents THEN Without(args, {"-p", "--parents"}) ELSE args,
                    create_parents, <<>>)

\* RmCommand.execute
RECURSIVE RmLoop(_, _, _, _, _)
RmLoop(m, paths, recursive, force, errors) ==
  IF paths = <<>> THEN Ret(m, Join("\n", errors))
  ELSE LET path == Head(paths)
           isdir == IsDir(m.fs, m.cwd, path)
           msg(why) == "rm: cannot remove '" \o path \o "': " \o why
           Removed(r) ==
             RmLoop([m EXCEPT !.fs = r.fs], Tail(paths), recursive, force,
                    IF isdir /\ ~recursive THEN Append(errors, msg("Is a directory"))
                    ELSE IF r.err = "" THEN errors
                    ELSE IF r.err = "FileNotFoundError"
                    THEN IF force THEN errors
                         ELSE Append(errors, msg("No such file or directory"))
                    ELSE IF r.err = "PermissionError"
                    THEN Append(errors, msg("Permission denied"))
                    ELSE Append(errors, msg(ErrText(r.err, path))))
       IN Removed(IF isdir
                  THEN IF recursive THEN ShutilRmtree(m.fs, m.cwd, path) ELSE Done(m.fs)
                  ELSE OsRemove(m.fs, m.cwd, path))

RmCommand(m, args) ==
  LET recursive == Has(args, "-r") \/ Has(args, "--recursive")
      force == Has(args, "-f") \/ Has(args, "--force")
  IN IF args = <<>> THEN Ret(m, "rm: missing operand")
     ELSE RmLoop(m, NonOptions(args), recursive, force, <<>>)

\* TouchCommand.execute
RECURSIVE TouchLoop(_, _, _)
TouchLoop(m, paths, errors) ==
  IF paths = <<>> THEN Ret(m, Join("\n", errors))
  ELSE LET path == Head(paths)
           Touched(r) ==
             TouchLoop([m EXCEPT !.fs = r.fs], Tail(paths),
                       IF r.err = "" THEN errors
                       ELSE IF r.err = "FileNotFoundError"
                       THEN Append(errors, "touch: cannot touch '" \o path
                                           \o "': No such file or directory")
                       ELSE IF r.err = "PermissionError"
                       THEN Append(errors, "touch: cannot touch '" \o path
                                           \o "': Permission denied")
                       ELSE Append(errors, "touch: " \o ErrText(r.err, path)))
       IN Touched(OpenAppend(m.fs, m.cwd, path))

TouchCommand(m, args) ==
  IF args = <<>> THEN Ret(m, "touch: missing file operand") ELSE TouchLoop(m, args, <<>>)

\* CatCommand.execute
RECURSIVE CatLoop(_, _, _)
CatLoop(m, paths, results) ==
  IF paths = <<>> THEN Ret(m, Join("\n", results))
  ELSE LET path == Head(paths)
           Read(r) ==
             CatLoop(m, Tail(paths),
                     Append(results,
                            IF r.err = "" THEN r.text
                            ELSE IF r.err = "FileNotFoundError"
                            THEN "cat: " \o path \o ": No such file or directory"
                            ELSE IF r.err = "IsADirectoryError"
                            THEN "cat: " \o path \o ": Is a directory"
                            ELSE IF r.err = "PermissionError"
                            THEN "cat: " \o path \o ": Permission denied"
                            ELSE "cat: " \o path \o ": " \o ErrText(r.err, path)))
       IN Read(OpenRead(m.fs, m.cwd, path))

CatCommand(m, args) ==
  IF args = <<>> THEN Ret(m, "cat: missing file operand") ELSE CatLoop(m, args, <<>>)

\* EchoCommand.execute
EchoCommand(m, args) == Ret(m, Join(" ", args))

\* PsCommand, TopCommand, DfCommand: the tables psutil reports are outside
\* the program; their rows are kept as placeholders
PsCommand(m, args) == Ret(m, "PID\tCPU%\tMEM%\tCOMMAND" \o "\n" \o "{processes}")

TopCommand(m, args) ==
  Ret(m, "{system_info}" \o "\n\n" \o "PID     USER       CPU%  MEM%  COMMAND" \o "\n"
         \o "{processes}")

DfCommand(m, args) ==
  LET human_readable == Has(args, "-h") \/ Has(args, "--human-readable")
  IN Ret(m, "Filesystem\tSize\tUsed\tAvail\tUse%\tMounted on" \o "\n"
            \o (IF human_readable THEN "{partitions -h}" ELSE "{partitions}"))

\* HistoryCommand.execute
RECURSIVE HistoryLines(_, _)
HistoryLines(history, i) ==
  IF i > Len(history) THEN <<>>
  ELSE <<PadLeft(IntToStr(i), 4) \o "  " \o history[i]>> \o HistoryLines(history, i + 1)

\* history[-count:]
LastEntries(history, count) ==
  IF count = 0 \/ count >= Len(history) THEN history
  ELSE SubSeq(history, Len(history) - count + 1, Len(history))

HistoryCommand(m, args) ==
  LET history == IF args # <<>> /\ IsDigitStr(args[1])
                 THEN LastEntries(m.history, StrToInt(args[1]))
                 ELSE m.history
  IN Ret(m, Join("\n", HistoryLines(history, 1)))

\* ClearCommand.execute, ExitCommand.execute: the two special return values
ClearCommand(m, args) == Ret(m, "__CLEAR__")

ExitCommand(m, args) == Ret(m, "__EXIT__")

\* Terminal.commands after AITerminal.__init__: name -> description
Descriptions ==
  [pwd |-> "Print the current working directory",
   ls |-> "List directory contents",
   cd |-> "Change the current working directory",
   mkdir |-> "Create new directories",
   rm |-> "Remove files or directories",
   touch |-> "Create empty files or update file timestamps",
   cat |-> "Concatenate and print files",
   echo |-> "Display a line of text",
   ps |-> "Report process status",
   top |-> "Display system resource usage and processes",
   df |-> "Report file system disk space usage",
   history |-> "Display command history",
   clear |-> "Clear the terminal screen",
   exit |-> "Exit the terminal",
   help |-> "Display help information for commands",
   nlp |-> "Process natural language commands",
   autocomplete |-> "Toggle auto-completion functionality"]

commands == DOMAIN Descriptions

\* Command.help and its two overrides
CommandHelp(name) ==
  IF name = "nlp"
  THEN "nlp: Process natural language commands. Type 'nlp help' for examples."
  ELSE IF name = "autocomplete"
  THEN "autocomplete: Toggle auto-completion functionality. Usage: autocomplete [on|off]"
  ELSE name \o ": " \o Descriptions[name]

RECURSIVE Indented(_, _)
Indented(prefix, lines) ==
  IF lines = <<>> THEN <<>> ELSE <<prefix \o Head(lines)>> \o Indented(prefix, Tail(lines))

\* HelpCommand.execute
HelpCommand(m, args) ==
  IF args = <<>>
  THEN Ret(m, "Available commands:\n" \o Join("\n", Indented("  ", Sorted(commands)))
              \o "\n\nType 'help <command>' for more information on a specific command.")
  ELSE IF args[1] \in commands THEN Ret(m, CommandHelp(args[1]))
       ELSE Ret(m, "Unknown command: " \o args[1])

\* AutoCompleteCommand.execute
AutoCompleteCommand(m, args) ==
  LET status(on) == IF on THEN "enabled" ELSE "disabled"
  IN IF args = <<>>
     THEN Ret([m EXCEPT !.enabled = ~m.enabled], "Auto-completion is now " \o status(~m.enabled))
     ELSE IF Lower(args[1]) \in {"on", "enable", "true", "1"}
     THEN Ret([m EXCEPT !.enabled = TRUE], "Auto-completion is now enabled")
     ELSE IF Lower(args[1]) \in {"off", "disable", "false", "0"}
     THEN Ret([m EXCEPT !.enabled = FALSE], "Auto-completion is now disabled")
     ELSE Ret(m, "Invalid argument. Use 'on' or 'off'.")

(***************************************************************************)
(* NLPCommand: the handler adapters                                        *)
(***************************************************************************)
RECURSIVE execute_command(_, _)

\* self.terminal.execute_command(line) called by an adapter: the value is
\* passed on as returned
Delegate(m, line) ==
  LET Returned(r) == [r EXCEPT !.dispatched = Append(@, [line |-> line, out |-> r.out])]
  IN Returned(execute_command(m, line))

_create_directory(m, directory_name) == Delegate(m, "mkdir " \o Quote(Strip(directory_name)))

_create_file(m, file_name) == Delegate(m, "touch " \o Quote(Strip(file_name)))

_list_directory(m, directory) ==
  Delegate(m, "ls " \o Quote(IF directory # "" THEN Strip(directory) ELSE "."))

_show_file_content(m, file_name) == Delegate(m, "cat " \o Quote(Strip(file_name)))

_remove_item(m, item_name) ==
  IF IsDir(m.fs, m.cwd, Strip(item_name))
  THEN Delegate(m, "rm -r " \o Quote(Strip(item_name)))
  ELSE Delegate(m, "rm " \o Quote(Strip(item_name)))

_change_directory(m, directory) == Delegate(m, "cd " \o Quote(Strip(directory)))

\* the file operation of a direct adapter, for the record of the call
Direct(m, op, src, dst, dest_path, r) ==
  [m EXCEPT !.fs = r.fs,
            !.direct = [op |-> op, source |-> src, destination |-> dst,
                        dest_path |-> dest_path, err |-> r.err]]

\* a move whose failure leaves the adapter as the exception raised
_move_item_uncaught(m, source0, destination0) ==
  LET source == Strip(source0)
      destination == Strip(destination0)
      dest_path == IF IsDir(m.fs, m.cwd, destination)
                   THEN PathJoin(destination, BaseName(source))
                   ELSE destination
      Moved(r) ==
        IF r.err = ""
        THEN Ret(Direct(m, "move", source, destination, dest_path, r),
                 "Moved " \o source \o " to " \o destination)
        ELSE Raise(Direct(m, "move", source, destination, dest_path, r), r.err)
  IN Moved(ShutilMove(m.fs, m.cwd, source, dest_path))

_move_item(m, source0, destination0) ==
  LET source == Strip(source0)
      destination == Strip(destination0)
      dest_path == IF IsDir(m.fs, m.cwd, destination)
                   THEN PathJoin(destination, BaseName(source))
                   ELSE destination
      Moved(r) ==
        Ret(Direct(m, "move", source, destination, dest_path, r),
            IF r.err = "" THEN "Moved " \o source \o " to " \o destination
            ELSE "Error moving " \o source \o " to " \o destination \o ": "
                 \o ErrText(r.err, r.real_dst))
  IN Moved(ShutilMove(m.fs, m.cwd, source, dest_path))

_rename_item(m, old_name0, new_name0) ==
  LET old_name == Strip(old_name0)
      new_name == Strip(new_name0)
      Renamed(r) ==
        Ret(Direct(m, "rename", old_name, new_name, new_name, r),
            IF r.err = "" THEN "Renamed " \o old_name \o " to " \o new_name
            ELSE "Error renaming " \o old_name \o " to " \o new_name \o ": "
                 \o ErrText(r.err, old_name))
  IN Renamed(OsRename(m.fs, m.cwd, old_name, new_name))

_copy_item(m, source0, destination0) ==
  LET source == Strip(source0)
      destination == Strip(destination0)
      Copied(dest_path, r) ==
        Ret(Direct(m, "copy", source, destination, dest_path, r),
            IF r.err = "" THEN "Copied " \o source \o " to " \o destination
            ELSE "Error copying " \o source \o " to " \o destination \o ": "
                 \o ErrText(r.err, dest_path))
  IN IF IsDir(m.fs, m.cwd, source)
     THEN IF PathExists(m.fs, m.cwd, destination)
          THEN Copied(PathJoin(destination, BaseName(source)),
                      ShutilCopytree(m.fs, m.cwd, source,
                                     PathJoin(destination, BaseName(source))))
          ELSE Copied(destination, ShutilCopytree(m.fs, m.cwd, source, destination))
     ELSE IF IsDir(m.fs, m.cwd, destination)
          THEN Copied(PathJoin(destination, BaseName(source)),
                      ShutilCopy2(m.fs, m.cwd, source, PathJoin(destination, BaseName(source))))
          ELSE Copied(destination, ShutilCopy2(m.fs, m.cwd, source, destination))

_list_processes(m) == Delegate(m, "ps")

_show_resource_usage(m) == Delegate(m, "top")

_show_disk_usage(m) == Delegate(m, "df -h")

_show_current_directory(m) == Delegate(m, "pwd")

_show_history(m) == Delegate(m, "history")

_show_help(m) == Delegate(m, "help")

\* the first run of word characters of t (re.search of one or more \w),
\* "" when t holds none
RECURSIVE FirstWord(_, _)
FirstWord(t, acc) ==
  IF t = "" THEN acc
  ELSE IF IsWordCh(Ch(t, 1)) THEN FirstWord(Tail(t), acc \o Ch(t, 1))
       ELSE IF acc = "" THEN FirstWord(Tail(t), "") ELSE acc

_show_command_help(m, command) ==
  LET cmd == FirstWord(Strip(command), "")
  IN IF cmd # "" THEN Delegate(m, "help " \o cmd) ELSE Delegate(m, "help")

\* an exit adapter that answers with a text of its own
_exit_terminal_goodbye(m) == Ret(Delegate(m, "exit"), "Goodbye!")

_exit_terminal(m) == Delegate(m, "exit")

_clear_screen(m) == Delegate(m, "clear")

(***************************************************************************)
(* NLPCommand.execute: the resolution engine                               *)
(***************************************************************************)
examples == <<
  "create a new folder called Projects",
  "make a new directory named Backup",
  "create a new file called notes.txt",
  "show files in Downloads",
  "list contents of the current directory",
  "what files are in Documents",
  "show content of file.txt",
  "read config.ini",
  "delete file temp.txt",
  "remove directory OldStuff",
  "move file report.pdf to Documents",
  "rename file old.txt to new.txt",
  "copy file important.docx to Backup",
  "change to directory Projects",
  "go to Documents",
  "show running processes",
  "display system usage",
  "show disk space",
  "where is my current location",
  "show command history",
  "list available commands",
  "help with creating files",
  "clear the screen",
  "exit terminal" >>

_show_examples == "Natural Language Command Examples:\n" \o Join("\n", Indented("  - ", examples))

GuidanceMessage == "Please enter a natural language command. Type 'nlp help' for examples."

DontUnderstand(query) ==
  "I don't understand '" \o query \o "'. Type 'nlp help' for examples of commands I understand."

\* handler(*match.groups()); the call and the value it returned are
\* recorded in invoked
CallHandler(m, handler, g) ==
  LET Returned(r) ==
        [r EXCEPT !.invoked = Append(@, [handler |-> handler, groups |-> g, result |-> r.out])]
  IN Returned(CASE handler = "_create_directory" -> _create_directory(m, g[1])
                [] handler = "_create_file" -> _create_file(m, g[1])
                [] handler = "_list_directory" -> _list_directory(m, g[1])
                [] handler = "_show_file_content" -> _show_file_content(m, g[1])
                [] handler = "_remove_item" -> _remove_item(m, g[1])
                [] handler = "_move_item" -> _move_item(m, g[1], g[2])
                [] handler = "_rename_item" -> _rename_item(m, g[1], g[2])
                [] handler = "_copy_item" -> _copy_item(m, g[1], g[2])
                [] handler = "_change_directory" -> _change_directory(m, g[1])
                [] handler = "_list_processes" -> _list_processes(m)
                [] handler = "_show_resource_usage" -> _show_resource_usage(m)
                [] handler = "_show_disk_usage" -> _show_disk_usage(m)
                [] handler = "_show_current_directory" -> _show_current_directory(m)
                [] handler = "_show_history" -> _show_history(m)
                [] handler = "_show_help" -> _show_help(m)
                [] handler = "_show_command_help" -> _show_command_help(m, g[1])
                [] handler = "_exit_terminal" -> _exit_terminal(m)
                [] handler = "_clear_screen" -> _clear_screen(m))

\* a loop that does not stop at the first match
RECURSIVE MatchLoopKeepGoing(_, _, _, _)
MatchLoopKeepGoing(m, table, query, i) ==
  IF i > Len(table)
  THEN IF m.invoked = <<>> THEN Ret(m, DontUnderstand(query)) ELSE m
  ELSE LET match == Search(table[i].pattern, query)
       IN MatchLoopKeepGoing(IF match.ok THEN CallHandler(m, table[i].handler, match.groups)
                             ELSE m,
                             table, query, i + 1)

\* for pattern, handler in table: the first pattern that matches decides
RECURSIVE MatchLoop(_, _, _, _)
MatchLoop(m, table, query, i) ==
  IF i > Len(table) THEN Ret(m, DontUnderstand(query))
  ELSE LET match == Search(table[i].pattern, query)
       IN IF match.ok THEN CallHandler(m, table[i].handler, match.groups)
          ELSE MatchLoop(m, table, query, i + 1)

\* NLPCommand.execute over a given pattern table
Resolve(m, table, args) ==
  LET query == Join(" ", args)
      m1 == [m EXCEPT !.query = query, !.resolved = TRUE]
  IN IF query = "" THEN Ret(m1, GuidanceMessage)
     ELSE IF Lower(query) \in {"help", "examples"} THEN Ret(m1, _show_examples)
     ELSE MatchLoop(m1, table, query, 1)

NLPCommand(m, args) == Resolve(m, command_patterns, args)

(***************************************************************************)
(* Terminal: parse_command and execute_command                             *)
(***************************************************************************)
\* Terminal.parse_command: [command, args]
parse_command(input_line) ==
  LET Parts(parts) ==
        IF parts = <<>> THEN [command |-> "", args |-> <<>>]
        ELSE [command |-> parts[1], args |-> Tail(parts)]
  IN Parts(Split(Strip(input_line)))

\* self.commands[cmd_name].execute(args)
Execute(m, cmd_name, args) ==
  CASE cmd_name = "pwd" -> PwdCommand(m, args)
    [] cmd_name = "ls" -> LsCommand(m, args)
    [] cmd_name = "cd" -> CdCommand(m, args)
    [] cmd_name = "mkdir" -> MkdirCommand(m, args)
    [] cmd_name = "rm" -> RmCommand(m, args)
    [] cmd_name = "touch" -> TouchCommand(m, args)
    [] cmd_name = "cat" -> CatCommand(m, args)
    [] cmd_name = "echo" -> EchoCommand(m, args)
    [] cmd_name = "ps" -> PsCommand(m, args)
    [] cmd_name = "top" -> TopCommand(m, args)
    [] cmd_name = "df" -> DfCommand(m, args)
    [] cmd_name = "history" -> HistoryCommand(m, args)
    [] cmd_name = "clear" -> ClearCommand(m, args)
    [] cmd_name = "exit" -> ExitCommand(m, args)
    [] cmd_name = "help" -> HelpCommand(m, args)
    [] cmd_name = "nlp" -> NLPCommand(m, args)
    [] cmd_name = "autocomplete" -> AutoCompleteCommand(m, args)

\* an interpreter that records a line only once its command name is known
execute_command_known_only(m, input_line) ==
  IF Strip(input_line) = "" THEN Ret(m, "")
  ELSE LET parsed == parse_command(input_line)
           m2 == [m EXCEPT !.history = Append(@, input_line), !.argv = Append(@, parsed)]
       IN IF parsed.command \in commands THEN Execute(m2, parsed.command, parsed.args)
          ELSE Ret([m EXCEPT !.argv = Append(@, parsed)],
                   parsed.command \o ": command not found")

\* Terminal.execute_command
execute_command(m, input_line) ==
  IF Strip(input_line) = "" THEN Ret(m, "")
  ELSE LET parsed == parse_command(input_line)
           m2 == [m EXCEPT !.history = Append(@, input_line), !.argv = Append(@, parsed)]
       IN IF parsed.command \in commands THEN Execute(m2, parsed.command, parsed.args)
          ELSE Ret(m2, parsed.command \o ": command not found")

(***************************************************************************)
(* The state machine.  One terminal object is driven either by the         *)
(* interactive loop (AITerminal.run), by the web endpoint (/execute), or   *)
(* by direct calls of NLPCommand.execute.                                  *)
(***************************************************************************)
VARIABLES
  mode,             \* which caller drives the terminal: "loop", "web", "resolve"
  fs,               \* the file system
  cwd,              \* the working directory of the process
  command_history,  \* Terminal.command_history
  enabled,          \* AutoCompleteCommand.enabled
  running,          \* Terminal.running
  call,             \* the last operation: its input, trace and result
  threads           \* the web requests being served, one thread each

vars == <<mode, fs, cwd, command_history, enabled, running, call, threads>>

\* the number of history entries after which no further input is taken
MaxHist == 1

\* the file system the terminal is started in:
\*   d/      a directory holding the file d/f and the directory d/e
\*   e/      an empty directory
\*   f, s    files; s holds the text of the exit signal
\*   p/      a directory the process has no permission on
\*   x y/    a directory whose name contains a space
InitialFs ==
  (<<"d">> :> Node("dir", TRUE, "")) @@ (<<"d", "f">> :> Node("file", TRUE, "df"))
  @@ (<<"d", "e">> :> Node("dir", TRUE, "")) @@ (<<"e">> :> Node("dir", TRUE, ""))
  @@ (<<"f">> :> Node("file", TRUE, "hi")) @@ (<<"s">> :> Node("file", TRUE, "__EXIT__"))
  @@ (<<"p">> :> Node("dir", FALSE, "")) @@ (<<"x y">> :> Node("dir", TRUE, ""))

\* the natural-language utterances submitted
Utterances == {
  "make folder n", "create folder x z", "create folder a\\b", "create folder f/n",
  "create file n", "create file x z", "touch file e",
  "show files", "show files in d", "show files in f", "show files in n", "show files in p",
  "list contents of x y",
  "read f", "read d", "read x y", "show content of s",
  "delete f", "remove d", "delete e", "delete x y", "delete n", "remove p",
  "move f to d", "move f to n", "move f to s", "move e to d", "move n to d", "move f to p",
  "move d to e to n", "rename f to e to n", "copy f to e to n",
  "rename f to d", "rename f to n", "rename n to f", "rename e to d",
  "copy f to d", "copy f to n", "copy d to f", "copy d to n", "copy d to e", "copy n to d",
  "go to d", "cd x y", "change dir f",
  "show processes", "display processes", "show usage", "display usage",
  "show disk usage", "display disk usage", "where is my current folder",
  "show history", "display history", "list commands", "display commands",
  "help ls", "how to ls", "help with ls", "help zz",
  "exit terminal", "clear the screen",
  "help", "zz  y", "Zz" }

\* the literal command lines submitted
LiteralLines == {
  "", "  ", "exit", "clear", "history", "history 0", "history 1", "history 2", "echo __EXIT__",
  "echo __CLEAR__", "cat s", "cd d", "ls f", "ls", "pwd", "mkdir n", "rm d", "autocomplete",
  "help", "nlp", "nlp  ", " exit", "zz" }

NlpLines == {"nlp " \o u : u \in Utterances}

\* the argument lists handed to NLPCommand.execute by a direct caller
ArgLists == {<<>>, <<"">>, <<" ">>, <<"", "">>, <<"\t">>, <<"help">>, <<"zz", "", "y">>,
             <<"delete", "f">>}

NoDirect == [op |-> "", source |-> "", destination |-> "", dest_path |-> "", err |-> ""]

\* the interpreter state at the start of an operation
Machine ==
  [fs |-> fs, cwd |-> cwd, history |-> command_history, enabled |-> enabled,
   out |-> Text(""), invoked |-> <<>>, dispatched |-> <<>>, argv |-> <<>>,
   direct |-> NoDirect, query |-> "", resolved |-> FALSE]

\* the number of web requests served concurrently
MaxRequests == 2

Requests == 1..MaxRequests

\* the texts submitted by the concurrent requests
ThreadCommands == {"", "make folder n", "go to d", "pwd", "exit"}

\* a thread of the web server:
\*   pc        "idle" before the request arrives, "recorded" once
\*             Terminal.execute_command has appended the line to the history,
\*             "dispatched" once the execute_command called by an adapter has
\*             appended the delegated line, "done" when the response is sent
\*   line, at  the line handed to the interpreter and the index of its
\*             history entry
\*   inner, inner_at   the same for the delegated line
\*   late      the request arrived after a session-ended response was sent
\*   response  the response sent
NoResponse == [status |-> 0, output |-> "", prompt |-> ""]

IdleThread ==
  [pc |-> "idle", line |-> "", at |-> 0, inner |-> "", inner_at |-> 0, late |-> FALSE,
   response |-> NoResponse]

Init ==
  /\ mode \in {"loop", "web", "resolve", "threads"}
  /\ threads = [t \in Requests |-> IdleThread]
  /\ fs = InitialFs
  /\ cwd = <<>>
  /\ command_history = <<>>
  /\ enabled = FALSE
  /\ running = TRUE
  /\ call = [op |-> "init"]

\* the effects of an execution on the terminal
Commit(m) ==
  /\ fs' = m.fs
  /\ cwd' = m.cwd
  /\ command_history' = m.history
  /\ enabled' = m.enabled

Trace(m) ==
  [out |-> m.out, invoked |-> m.invoked, dispatched |-> m.dispatched, argv |-> m.argv,
   direct |-> m.direct, query |-> m.query, resolved |-> m.resolved]

\* Terminal.get_prompt
get_prompt(dir) ==
  LET getcwd == "/" \o Join("/", dir)
      shown == IF StartsWith(getcwd, HomeDir)
               THEN "~" \o SubSeq(getcwd, Len(HomeDir) + 1, Len(getcwd))
               ELSE getcwd
  IN "user@host:" \o shown \o "$ "

\* AITerminal.run, one iteration of the loop on an input line
RunCommand(user_input) ==
  /\ mode = "loop"
  /\ running
  /\ Len(command_history) < MaxHist
  /\ \E m \in {execute_command(Machine, user_input)} :
     LET output == m.out
     IN /\ Commit(m)
        /\ running' = IF output = Text("__EXIT__") THEN FALSE ELSE running
        /\ call' = [op |-> "loop", input |-> user_input,
                    printed |-> IF output.exc # "" THEN "Error: " \o output.exc
                                ELSE IF output.text = "__EXIT__" THEN "Goodbye!"
                                ELSE IF output.text = "__CLEAR__" THEN ""
                                ELSE output.text,
                    cleared |-> output = Text("__CLEAR__")] @@ Trace(m)
  /\ UNCHANGED <<mode, threads>>

\* a loop without the except KeyboardInterrupt clause: the interrupt ends it
RunInterruptStops ==
  /\ mode = "loop"
  /\ running
  /\ running' = FALSE
  /\ call' = [op |-> "interrupt", printed |-> "KeyboardInterrupt"]
  /\ UNCHANGED <<mode, fs, cwd, command_history, enabled, threads>>

\* AITerminal.run, input() interrupted: except KeyboardInterrupt
RunInterrupt ==
  /\ mode = "loop"
  /\ running
  /\ call' = [op |-> "interrupt", printed |-> "\nUse 'exit' to quit the terminal."]
  /\ UNCHANGED <<mode, fs, cwd, command_history, enabled, running, threads>>

\* AITerminal.run, end of input: except EOFError
RunEOF ==
  /\ mode = "loop"
  /\ running
  /\ running' = FALSE
  /\ call' = [op |-> "eof", printed |-> "\nGoodbye!"]
  /\ UNCHANGED <<mode, fs, cwd, command_history, enabled, threads>>

\* an endpoint that hands every text to the terminal as it is
WebLineUnrouted(command) == Text(command)

\* web_terminal.execute_command: the line handed to the terminal, or the
\* IndexError of command.split()[0] on a text without any token
WebLine(command) ==
  IF command = "" THEN Text(command)
  ELSE IF Split(command) = <<>> THEN Exc("IndexError")
  ELSE IF Split(command)[1] \notin commands /\ ~StartsWith(command, "nlp ")
       THEN Text("nlp " \o command)
       ELSE Text(command)

\* web_terminal.execute_command: one request to /execute
WebExecute(command) ==
  /\ mode = "web"
  /\ Len(command_history) < MaxHist
  /\ \E line \in {WebLine(command)} :
     \E m \in {IF line.exc # "" THEN Raise(Machine, line.exc)
               ELSE execute_command(Machine, line.text)} :
     LET output == m.out
     IN /\ Commit(m)
        /\ call' = [op |-> "web", input |-> command, line |-> line,
                    response |->
                      IF output.exc # "" THEN [status |-> 500, output |-> "", prompt |-> ""]
                      ELSE IF output.text = "__EXIT__"
                      THEN [status |-> 200,
                            output |-> "Terminal session ended. Refresh the page to start a new session.",
                            prompt |-> ""]
                      ELSE IF output.text = "__CLEAR__"
                      THEN [status |-> 200, output |-> "", prompt |-> get_prompt(m.cwd)]
                      ELSE [status |-> 200, output |-> output.text, prompt |-> get_prompt(m.cwd)]]
                   @@ Trace(m)
  /\ UNCHANGED <<mode, running, threads>>

\* NLPCommand.execute called with an argument list
DirectResolve(args) ==
  /\ mode = "resolve"
  /\ Len(command_history) < MaxHist
  /\ \E m \in {NLPCommand(Machine, args)} :
        /\ Commit(m)
        /\ call' = [op |-> "resolve", input |-> args] @@ Trace(m)
  /\ UNCHANGED <<mode, running, threads>>

\* the response of the web endpoint to the value output of the interpreter
WebResponse(output, dir) ==
  IF output.exc # "" THEN [status |-> 500, output |-> "", prompt |-> ""]
  ELSE IF output.text = "__EXIT__"
  THEN [status |-> 200,
        output |-> "Terminal session ended. Refresh the page to start a new session.",
        prompt |-> ""]
  ELSE IF output.text = "__CLEAR__"
  THEN [status |-> 200, output |-> "", prompt |-> get_prompt(dir)]
  ELSE [status |-> 200, output |-> output.text, prompt |-> get_prompt(dir)]

SessionEnded(t) ==
  threads[t].response.output = "Terminal session ended. Refresh the page to start a new session."

\* a request arrives at /execute in a thread of its own; the thread runs up
\* to self.command_history.append(input_line) of Terminal.execute_command
ThreadReceive(t, command) ==
  /\ mode = "threads"
  /\ threads[t].pc = "idle"
  /\ \E line \in {WebLine(command)} :
     \E late \in {\E u \in Requests : SessionEnded(u)} :
       IF line.exc # ""
       THEN /\ threads' = [threads EXCEPT ![t] =
                             [IdleThread EXCEPT !.pc = "done", !.late = late,
                                                !.response = WebResponse(line, cwd)]]
            /\ UNCHANGED command_history
       ELSE IF Strip(line.text) = ""
       THEN /\ threads' = [threads EXCEPT ![t] =
                             [IdleThread EXCEPT !.pc = "done", !.late = late,
                                                !.response = WebResponse(Text(""), cwd)]]
            /\ UNCHANGED command_history
       ELSE /\ command_history' = Append(command_history, line.text)
            /\ threads' = [threads EXCEPT ![t] =
                             [IdleThread EXCEPT !.pc = "recorded", !.late = late,
                                                !.line = line.text,
                                                !.at = Len(command_history) + 1]]
  /\ UNCHANGED <<mode, fs, cwd, enabled, running, call>>

\* the thread goes on from the history entry of its line: a command, or a
\* resolution with a direct adapter, runs to its end; a resolution with a
\* delegating adapter runs up to the append of the delegated line
ThreadExecute(t) ==
  /\ mode = "threads"
  /\ threads[t].pc = "recorded"
  /\ \E parsed \in {parse_command(threads[t].line)} :
     \E m \in {IF parsed.command \in commands
                THEN Execute([Machine EXCEPT !.argv = <<parsed>>], parsed.command, parsed.args)
                ELSE Ret(Machine, parsed.command \o ": command not found")} :
       IF m.dispatched # <<>>
       THEN /\ command_history' = Append(command_history, m.dispatched[1].line)
            /\ threads' = [threads EXCEPT ![t].pc = "dispatched",
                                           ![t].inner = m.dispatched[1].line,
                                           ![t].inner_at = Len(command_history) + 1]
            /\ UNCHANGED <<fs, cwd, enabled>>
       ELSE /\ Commit(m)
            /\ threads' = [threads EXCEPT ![t].pc = "done",
                                           ![t].response = WebResponse(m.out, m.cwd)]
  /\ UNCHANGED <<mode, running, call>>

\* the thread executes the delegated line and sends the response
ThreadFinish(t) ==
  /\ mode = "threads"
  /\ threads[t].pc = "dispatched"
  /\ \E parsed \in {parse_command(threads[t].inner)} :
     \E m \in {Execute([Machine EXCEPT !.argv = <<parsed>>], parsed.command, parsed.args)} :
       /\ Commit(m)
       /\ threads' = [threads EXCEPT ![t].pc = "done",
                                      ![t].response = WebResponse(m.out, m.cwd)]
  /\ UNCHANGED <<mode, running, call>>

Next ==
  \/ \E user_input \in LiteralLines \cup NlpLines : RunCommand(user_input)
  \/ RunInterrupt
  \/ RunEOF
  \/ \E command \in LiteralLines \cup Utterances : WebExecute(command)
  \/ \E args \in ArgLists : DirectResolve(args)
  \/ \E t \in Requests, command \in ThreadCommands : ThreadReceive(t, command)
  \/ \E t \in Requests : ThreadExecute(t)
  \/ \E t \in Requests : ThreadFinish(t)

Spec == Init /\ [][Next]_vars

(***************************************************************************)
(* Claims                                                                  *)
(***************************************************************************)
\* the last operation ran NLPCommand.execute
Resolved == call.op \in {"loop", "web", "resolve"} /\ call.resolved

\* the query went through the pattern table (neither empty nor a help keyword)
Scanned == Resolved /\ call.query # "" /\ Lower(call.query) \notin {"help", "examples"}

\* the indexes of the patterns of table whose recognizer matches query
Matching(table, query) == {i \in 1..Len(table) : Search(table[i].pattern, query).ok}

Least(S) == CHOOSE i \in S : \A j \in S : i <= j

\* table with the entries at i and j exchanged
Swap(table, i, j) == [table EXCEPT ![i] = table[j], ![j] = table[i]]

\* C1: first match wins. NLPCommand.execute invokes the handler of the
\* lowest-index matching pattern and no other handler, and returns that
\* handler's result; with the first match exchanged with a later matching
\* pattern bound to another handler, that other handler is the one invoked.
C1_FirstMatchWins ==
  Scanned =>
    LET M == Matching(command_patterns, call.query)
    IN /\ Len(call.invoked) <= 1
       /\ M = {} => call.invoked = <<>>
       /\ M # {} =>
            /\ Len(call.invoked) = 1
            /\ call.invoked[1].handler = command_patterns[Least(M)].handler
            /\ call.out = call.invoked[1].result
            /\ \A j \in M :
                 command_patterns[j].handler # command_patterns[Least(M)].handler =>
                   LET r == Resolve(Machine, Swap(command_patterns, Least(M), j), <<call.query>>)
                   IN /\ Len(r.invoked) = 1
                      /\ r.invoked[1].handler = command_patterns[j].handler
                      /\ r.invoked[1].handler # call.invoked[1].handler

\* C1 witness: an utterance matched by two patterns bound to different
\* handlers has been resolved
C1_Witness ==
  /\ Scanned
  /\ \E i, j \in Matching(command_patterns, call.query) :
       i < j /\ command_patterns[i].handler # command_patterns[j].handler
  /\ Len(call.invoked) = 1

\* the last operation executed a command or a resolution and left its trace
Executed(c) == c.op \in {"loop", "web", "resolve"}

\* the adapters that compose a literal line from one slot, each with the
\* command name of its line
SlotCommand ==
  ("_create_directory" :> "mkdir") @@ ("_create_file" :> "touch")
  @@ ("_list_directory" :> "ls") @@ ("_show_file_content" :> "cat")
  @@ ("_remove_item" :> "rm") @@ ("_change_directory" :> "cd")

\* C2: round trip of a slot through the literal line. Whenever a delegating
\* adapter (mkdir, touch, ls, cat, rm, cd) was invoked with a slot whose
\* trimmed value is not empty, Terminal.parse_command splits the one line the
\* adapter composed into the command name followed by exactly one argument
\* token equal to the trimmed slot value (after the -r of a recursive rm).
C2_SlotRoundTrip ==
  Resolved =>
    \A i \in 1..Len(call.invoked) :
      LET h == call.invoked[i].handler
          slot == Strip(call.invoked[i].groups[1])
      IN (h \in DOMAIN SlotCommand /\ slot # "") =>
           /\ Len(call.dispatched) = 1
           /\ LET parsed == parse_command(call.dispatched[1].line)
              IN /\ parsed.command = SlotCommand[h]
                 /\ \/ parsed.args = <<slot>>
                    \/ h = "_remove_item" /\ parsed.args = <<"-r", slot>>

\* C3: resolution never raises. Whatever the utterance and the state of the
\* file system, NLPCommand.execute returns a text: no exception propagates.
C3_NeverRaises == Resolved => call.out.exc = ""

\* the subtree of tree f at path a, by the paths relative to a
Image(f, a) == {<<SubSeq(q, Len(a) + 1, Len(q)), f[q]>> : q \in SubTree(f, a)}

\* what was at path a of tree pre is at path b of tree post, and no longer at a
LandedAt(pre, post, a, b) ==
  /\ a \in DOMAIN pre
  /\ Image(post, b) = Image(pre, a)
  /\ a # b => a \notin DOMAIN post

\* the destination policy: dst joined with the base name of src when dst is
\* an existing directory of tree f, the literal dst otherwise
Policy(f, dir, src, dst) == IF IsDir(f, dir, dst) THEN PathJoin(dst, BaseName(src)) ELSE dst

\* C4: move destination. A move that succeeds leaves the source at dst joined
\* with the base name of src when dst was an existing directory at the time
\* of the call, and at the literal dst in every other case.
C4_MoveDestination ==
  [][(Executed(call') /\ call'.direct.op = "move" /\ call'.direct.err = "")
       => LandedAt(fs, fs', AbsPath(cwd, call'.direct.source),
                   AbsPath(cwd, Policy(fs, cwd, call'.direct.source,
                                       call'.direct.destination)))]_vars

\* C5: rename and copy apply the destination policy of move. The path the
\* adapter hands to the file operation is the destination joined with the
\* base name of the source if and only if the destination was an existing
\* directory, and the literal destination otherwise.
C5_RenameCopyDestination ==
  [][(Executed(call') /\ call'.direct.op \in {"rename", "copy"})
       => call'.direct.dest_path = Policy(fs, cwd, call'.direct.source,
                                          call'.direct.destination)]_vars

\* sub occurs in t
Contains(t, sub) == \E i \in 0..(Len(t) - Len(sub)) : SubSeq(t, i + 1, i + Len(sub)) = sub

\* the words by which the text of an exception of class err describes it
Phrase(err) ==
  CASE err = "FileNotFoundError" -> "No such file or directory"
    [] err = "PermissionError" -> "Permission denied"
    [] err = "FileExistsError" -> "File exists"
    [] err = "NotADirectoryError" -> "Not a directory"
    [] err = "IsADirectoryError" -> "Is a directory"
    [] err = "OSError" -> "Directory not empty"
    [] err = "SameFileError" -> "same file"
    [] OTHER -> "already exists"

Verb(op) == CASE op = "move" -> "moving" [] op = "rename" -> "renaming" [] op = "copy" -> "copying"

\* C6: failures of move, rename and copy stay inside the adapter. When the
\* file operation of a direct adapter fails, NLPCommand.execute returns the
\* adapter's text, which names the two trimmed slot values and describes the
\* underlying error; no exception propagates.
C6_FailuresCaught ==
  (Executed(call) /\ call.direct.op # "" /\ call.direct.err # "") =>
    LET head == "Error " \o Verb(call.direct.op) \o " " \o call.direct.source \o " to "
                \o call.direct.destination \o ": "
    IN /\ call.out.exc = ""
       /\ Len(call.invoked) = 1
       /\ call.out = call.invoked[1].result
       /\ call.direct.source = Strip(call.invoked[1].groups[1])
       /\ call.direct.destination = Strip(call.invoked[1].groups[2])
       /\ StartsWith(call.out.text, head)
       /\ Contains(SubSeq(call.out.text, Len(head) + 1, Len(call.out.text)),
                   Phrase(call.direct.err))

\* C6 witness: a move refused for lack of permission has been resolved
C6_Witness ==
  /\ Executed(call)
  /\ call.direct.op = "move"
  /\ call.direct.err = "PermissionError"
  /\ call.out.exc = ""

Line(c) == IF c.op = "web" THEN c.line.text ELSE c.input

\* the utterance as submitted: the text after the command name of the line,
\* or the joined arguments of a direct call
Submitted(c) == IF c.op = "resolve" THEN c.query ELSE SubSeq(Line(c), 5, Len(Line(c)))

\* C8: an utterance that matches no pattern (neither empty nor a help
\* keyword) invokes no handler, dispatches no literal command, and gets the
\* "I don't understand" message holding the utterance exactly as submitted.
C8_NoMatchEchoes ==
  (/\ Scanned
   /\ call.op # "resolve" => StartsWith(Line(call), "nlp ")
   /\ Matching(command_patterns, call.query) = {}) =>
    /\ call.invoked = <<>>
    /\ call.dispatched = <<>>
    /\ call.out.exc = ""
    /\ StartsWith(call.out.text, "I don't understand '")
    /\ Contains(call.out.text, "'" \o Submitted(call) \o "'")

\* nothing on the way to path p or below it refuses the process
Removable(f, dir, p) ==
  /\ EntryErr(f, dir, p) = ""
  /\ \A q \in SubTree(f, AbsPath(dir, p)) : f[q].perm

\* C9: the remove adapter dispatches rm -r exactly when the trimmed slot
\* names an existing directory at the time of the call and plain rm
\* otherwise, so that an existing target (a file, an empty or a non-empty
\* directory) is gone afterwards and no "Is a directory" refusal is returned.
C9_RemoveAdapter ==
  [][(Executed(call') /\ Len(call'.invoked) = 1
      /\ call'.invoked[1].handler = "_remove_item") =>
       LET target == Strip(call'.invoked[1].groups[1])
       IN /\ Len(call'.dispatched) = 1
          /\ StartsWith(call'.dispatched[1].line, "rm ")
          /\ StartsWith(call'.dispatched[1].line, "rm -r ") <=> IsDir(fs, cwd, target)
          /\ ~Contains(call'.out.text, "Is a directory")
          /\ (PathExists(fs, cwd, target) /\ Removable(fs, cwd, target))
               => ~PathExists(fs', cwd, target)]_vars

\* the adapters that run a file operation themselves
DirectHandlers == {"_move_item", "_rename_item", "_copy_item"}

\* the interpreter state in which the adapter of operation c dispatches its
\* line: the line of the operation itself has been recorded
AtDispatch(c) ==
  [Machine EXCEPT !.history = IF c.op = "resolve" THEN @ ELSE Append(@, Line(c))]

\* operation c is the literal command name, or the utterance handled by handler
Enters(c, name, handler) ==
  /\ Executed(c)
  /\ \/ c.op # "resolve" /\ Strip(Line(c)) = name
     \/ Len(c.invoked) = 1 /\ c.invoked[1].handler = handler

\* C10: a delegating adapter returns the result of the line it dispatches
\* unchanged. The value of the resolution is the value the dispatched line
\* returned, which is the value of executing that line directly in the same
\* state; and an exit or clear entered as natural language gives the same
\* sentinel and the same reaction of the caller as the literal command.
C10_DelegateUnchanged ==
  [][/\ (Executed(call') /\ Len(call'.invoked) = 1
         /\ call'.invoked[1].handler \notin DirectHandlers) =>
          /\ Len(call'.dispatched) = 1
          /\ call'.out = call'.dispatched[1].out
          /\ call'.out = execute_command(AtDispatch(call'), call'.dispatched[1].line).out
     /\ Enters(call', "exit", "_exit_terminal") =>
          /\ call'.out = Text("__EXIT__")
          /\ call'.op = "loop" => ~running' /\ call'.printed = "Goodbye!"
          /\ call'.op = "web" =>
               call'.response =
                 [status |-> 200,
                  output |-> "Terminal session ended. Refresh the page to start a new session.",
                  prompt |-> ""]
     /\ Enters(call', "clear", "_clear_screen") =>
          /\ call'.out = Text("__CLEAR__")
          /\ call'.op = "loop" => running' /\ call'.cleared /\ call'.printed = ""
          /\ call'.op = "web" =>
               call'.response = [status |-> 200, output |-> "", prompt |-> get_prompt(cwd')]
    ]_vars

\* C10 witness: the utterance "exit terminal" has ended the interactive loop
C10_Witness ==
  /\ call.op = "loop"
  /\ call.input = "nlp exit terminal"
  /\ Len(call.invoked) = 1
  /\ call.invoked[1].handler = "_exit_terminal"
  /\ call.dispatched = <<[line |-> "exit", out |-> Text("__EXIT__")]>>
  /\ ~running

\* the name of the registry command that produced the value of operation c
\* (the last one executed), "" when none was executed
LastCommand(c) == IF c.argv = <<>> THEN "" ELSE c.argv[Len(c.argv)].command

\* C11: the terminate and clear signals are out of band. The loop stops only
\* as the result of the exit command and clears only as the result of the
\* clear command; the web endpoint answers "session ended" only for exit, and
\* returns the text of every other command but clear as its output.
C11_SignalsOutOfBand ==
  /\ (call.op = "loop" /\ ~running) => LastCommand(call) = "exit"
  /\ (call.op = "loop" /\ call.cleared) => LastCommand(call) = "clear"
  /\ (call.op = "web" /\ call.out.exc = "" /\ LastCommand(call) \notin {"exit", "clear"}) =>
       call.response.output = call.out.text

\* C12: concurrent web requests interleave only at whole command
\* executions. The history entry of a line and the entry of the literal line
\* its adapter delegates to are never separated by an entry of another
\* request.
C12_WholeCommandInterleaving ==
  \A t \in Requests : threads[t].inner_at # 0 => threads[t].inner_at = threads[t].at + 1

\* C13: the web endpoint completes without raising for every submitted
\* string (empty, whitespace only, a literal command, free text) and answers
\* with an output string and a prompt string.
C13_WebNeverRaises ==
  call.op = "web" => (call.out.exc = "" /\ call.response.status = 200)

\* C14: web routing. For a submitted text with at least one token the line
\* handed to the interpreter is the text itself when the leading token is a
\* registered command name and the text prefixed with the nlp keyword
\* otherwise; every command name dispatched for the request is a registered
\* name and the answer is never the command-not-found message.
C14_WebRouting ==
  (call.op = "web" /\ Split(call.input) # <<>>) =>
    /\ call.line = Text(IF Split(call.input)[1] \in commands THEN call.input
                        ELSE "nlp " \o call.input)
    /\ call.argv # <<>>
    /\ \A i \in 1..Len(call.argv) : call.argv[i].command \in commands
    /\ ~Contains(call.response.output, ": command not found")

\* C14 witness: a free text was prefixed with the keyword, resolved and
\* answered
C14_Witness ==
  /\ call.op = "web"
  /\ call.input = "make folder n"
  /\ call.line = Text("nlp make folder n")
  /\ call.argv[1].command = "nlp"
  /\ call.response.status = 200

\* C15: the interactive loop survives every failure. After an iteration
\* whose command returned anything but the exit signal, or raised an
\* exception, and after an interrupted input, the loop is still running; the
\* loop stops only in an iteration that got the exit signal or the end of
\* input; once it has stopped nothing is read or executed any more.
C15_LoopSurvives ==
  [][ /\ (call'.op = "loop" /\ call'.out # Text("__EXIT__")) => running'
      /\ call'.op = "interrupt" => running'
      /\ (running /\ ~running') =>
            \/ call'.op = "eof"
            \/ call'.op = "loop" /\ call'.out = Text("__EXIT__")
      /\ ~running => UNCHANGED vars
    ]_vars

\* C15 witness: a command raised an exception in the loop, the loop printed
\* the error and is still running
C15_Witness ==
  /\ call.op = "loop"
  /\ call.out.exc # ""
  /\ call.printed = "Error: " \o call.out.exc
  /\ running

\* the handler an utterance resolves to (first match in table order), "" when
\* no pattern matches
HandlerOf(utterance) ==
  LET M == Matching(command_patterns, utterance)
  IN IF M = {} THEN "" ELSE command_patterns[Least(M)].handler

\* the handlers bound in the pattern table
Handlers == {command_patterns[i].handler : i \in 1..Len(command_patterns)}

\* C16: the examples listing covers every pattern family. Whenever the
\* listing is shown, every handler bound in the pattern table is the handler
\* that at least one utterance of the listing resolves to.
C16_ExamplesCoverHandlers ==
  (Resolved /\ call.out = Text(_show_examples)) =>
    \A handler \in Handlers :
      \E i \in 1..Len(examples) : HandlerOf(examples[i]) = handler

\* the leading phrases of the help pattern and the names asked about
HelpPhrases == {"how to ", "help ", "help with "}

HelpNames == {"ls", "zz"}

\* C17: help for a command looks the extracted name up in the registry. For
\* each leading phrase of the help pattern followed by a name, the result is
\* the help text of the name when it is a registered command and the
\* unknown-command message naming it otherwise.
C17_HelpLooksUpName ==
  \A phrase \in HelpPhrases, name \in HelpNames :
    (Resolved /\ call.query = phrase \o name) =>
      call.out = Text(IF name \in commands THEN CommandHelp(name)
                      ELSE "Unknown command: " \o name)

\* the positions of the separator " to " in t
ToAt(t) == {i \in 1..Len(t) : i + 3 <= Len(t) /\ SubSeq(t, i, i + 3) = " to "}

Greatest(S) == CHOOSE i \in S : \A j \in S : j <= i

\* C18: greedy two-slot extraction. For a move, rename or copy utterance
\* in which the separator " to " occurs more than once, the first slot is
\* the text up to the last separator, the second slot the text after it, and
\* the handler of the verb receives them in that order.
C18_GreedyTwoSlots ==
  \A verb \in {"move", "rename", "copy"} :
    (Scanned /\ StartsWith(call.query, verb \o " ")) =>
      LET rest == SubSeq(call.query, Len(verb) + 2, Len(call.query))
      IN Cardinality(ToAt(rest)) > 1 =>
           /\ Len(call.invoked) = 1
           /\ call.invoked[1].handler = "_" \o verb \o "_item"
           /\ call.invoked[1].groups =
                <<SubSeq(rest, 1, Greatest(ToAt(rest)) - 1),
                  SubSeq(rest, Greatest(ToAt(rest)) + 4, Len(rest))>>
           /\ call.direct.source = call.invoked[1].groups[1]
           /\ call.direct.destination = call.invoked[1].groups[2]

\* C18 witness: "move d to e to n" was resolved to a move of "d to e" to "n"
C18_Witness ==
  /\ Scanned
  /\ call.query = "move d to e to n"
  /\ call.invoked[1].handler = "_move_item"
  /\ call.invoked[1].groups = <<"d to e", "n">>

\* the objects of the system and meta patterns whose recognizer lists both
\* show and display
ShowDisplayObjects == {"processes", "usage", "disk usage", "history", "commands"}

\* C19: synonymous leading verbs resolve alike. For each system or meta
\* pattern that lists both show and display, the "display ..." form of an
\* utterance invokes the handler its "show ..." form resolves to.
C19_DisplayLikeShow ==
  \A object \in ShowDisplayObjects :
    (Scanned /\ call.query = "display " \o object) =>
      /\ Len(call.invoked) = 1
      /\ call.invoked[1].handler = HandlerOf("show " \o object)

\* C20: exit ends the session for the web caller. Once a request has been
\* answered with the session-ended response, no step of a request that
\* arrives later adds a history entry or changes the working directory.
C20_ExitEndsWebSession ==
  [][ \A u \in Requests :
        (threads'[u] # threads[u] /\ threads'[u].late) =>
          (command_history' = command_history /\ cwd' = cwd)
    ]_vars

\* operation c handed a line to Terminal.execute_command
Recorded(c) == c.op = "loop" \/ (c.op = "web" /\ c.line.exc = "")

\* operation c was resolved by an adapter that dispatches a literal line
Delegated(c) == Len(c.invoked) = 1 /\ c.invoked[1].handler \notin DirectHandlers

\* C21: the command history is append-only. Every step leaves the earlier
\* history as a prefix of the new one; a blank line returns empty text and
\* leaves the history unchanged; a non-blank line, known command or not, is
\* appended (the history command already lists its own line), and an
\* utterance handled by a delegating adapter adds exactly one further entry,
\* the dispatched line, directly after its own.
C21_HistoryAppendOnly ==
  [][ /\ IsPrefix(command_history, command_history')
      /\ Recorded(call') =>
           IF Strip(Line(call')) = ""
           THEN call'.out = Text("") /\ command_history' = command_history
           ELSE /\ Delegated(call') =>
                     /\ Len(call'.dispatched) = 1
                     /\ command_history' =
                          command_history \o <<Line(call'), call'.dispatched[1].line>>
                /\ ~Delegated(call') =>
                     /\ call'.dispatched = <<>>
                     /\ command_history' = Append(command_history, Line(call'))
                /\ Strip(Line(call')) = "history" =>
                     Contains(call'.out.text, "  " \o Line(call'))
    ]_vars

\* C21 witness: an utterance and the line it dispatched were recorded one
\* after the other
C21_Witness ==
  /\ call.op = "loop"
  /\ call.input = "nlp make folder n"
  /\ Delegated(call)
  /\ command_history = <<"nlp make folder n", "mkdir n">>

\* C21 witness of the unknown command: its line is in the history
C21_UnknownRecorded ==
  /\ call.op = "loop"
  /\ call.input = "zz"
  /\ call.out = Text("zz: command not found")
  /\ command_history = <<"zz">>

\* the min(n, length) most recent entries of history
MostRecent(history, n) ==
  SubSeq(history, Len(history) - (IF n < Len(history) THEN n ELSE Len(history)) + 1,
         Len(history))

\* the numeric arguments given to the history command
HistoryCounts == {"0", "1", "2"}

\* C22: "history N" outputs the min(N, length) most recent entries of the
\* history, its own line being the last of them, numbered from 1; in
\* particular "history 0" outputs no entry.
C22_HistoryCount ==
  \A count \in HistoryCounts :
    (Recorded(call) /\ Line(call) = "history " \o count) =>
      /\ command_history[Len(command_history)] = Line(call)
      /\ call.out = Text(Join("\n", HistoryLines(MostRecent(command_history, StrToInt(count)), 1)))

====
